---- MODULE Spec2Model ----
(***************************************************************************)
(* pycaen: host-side driver of a CAEN 1471 high-voltage module.            *)
(*                                                                         *)
(* The module models src/src/pycaen/_caen1471.py:                          *)
(*   - the reply decoder (Caen1471.__check_error, Caen1471._parse_reply)   *)
(*     as operators over character sequences,                              *)
(*   - the exchange (Caen1471._command) as a state machine run by threads  *)
(*     that share one facade (its busy flag and its serial connection),    *)
(*   - the facade operations that wrap the exchange,                       *)
(*   - the getters that decode a word of bits (status, enabled,            *)
(*     alarm_status) and the command encoder with the setters, each run    *)
(*     on its own on inputs drawn from bounded sets.                       *)
(*                                                                         *)
(* A Python str is a sequence of one-character strings, so that a regular  *)
(* expression is modelled by what it accepts.                              *)
(***************************************************************************)
EXTENDS Integers, Sequences, FiniteSets, TLC

(***************************************************************************)
(* Bounds of the model.                                                    *)
(***************************************************************************)
\* At most MaxCalls facade operations are started in one behaviour.
MaxCalls == 2
\* The board id of a decoded reply has up to MaxIdLen digits.
MaxIdLen == 3
\* A status or alarm word read from the device has up to MaxStateBits bits.
MaxStateBits == 15
\* The module ids 0..MaxModule and the channels 0..MaxChannel of the requests
\* that are built on their own.
MaxModule == 99
MaxChannel == 3

(***************************************************************************)
(* Characters and strings.                                                 *)
(***************************************************************************)
CR == "\r"
LF == "\n"
CRLF == <<CR, LF>>

Digits == {"0", "1", "2", "3", "4", "5", "6", "7", "8", "9"}

\* The characters str.lstrip(), str.strip(), int() and float() treat as blank
\* (of the ASCII whitespace, \v and \f do not occur in the modelled inputs).
Whitespace == {" ", "\t", CR, LF}

DigitVal(c) ==
    CASE c = "0" -> 0 [] c = "1" -> 1 [] c = "2" -> 2 [] c = "3" -> 3
      [] c = "4" -> 4 [] c = "5" -> 5 [] c = "6" -> 6 [] c = "7" -> 7
      [] c = "8" -> 8 [] c = "9" -> 9

\* s[from..] (1-based), the empty string when from is beyond the end.
From(s, from) == SubSeq(s, from, Len(s))

StartsWith(s, p) == Len(s) >= Len(p) /\ SubSeq(s, 1, Len(p)) = p

\* Number of consecutive digits of s starting at position i: what [0-9]* takes.
RECURSIVE DigitRun(_, _)
DigitRun(s, i) ==
    IF i <= Len(s) /\ s[i] \in Digits THEN 1 + DigitRun(s, i + 1) ELSE 0

\* str.lstrip()
RECURSIVE lstrip(_)
lstrip(s) ==
    IF s # <<>> /\ Head(s) \in Whitespace THEN lstrip(Tail(s)) ELSE s

\* str.rstrip(), the other half of the strip() that int() and float() apply.
RECURSIVE rstrip(_)
rstrip(s) ==
    IF s # <<>> /\ s[Len(s)] \in Whitespace
    THEN rstrip(SubSeq(s, 1, Len(s) - 1)) ELSE s

strip(s) == rstrip(lstrip(s))

\* Position of the first LF of s, 0 when there is none.
RECURSIVE FirstLF(_, _)
FirstLF(s, i) ==
    IF i > Len(s) THEN 0 ELSE IF s[i] = LF THEN i ELSE FirstLF(s, i + 1)

\* Value of a string of decimal digits.
RECURSIVE DecVal(_)
DecVal(s) ==
    IF s = <<>> THEN 0
    ELSE 10 * DecVal(SubSeq(s, 1, Len(s) - 1)) + DigitVal(s[Len(s)])

AllDigits(s) == \A i \in 1..Len(s) : s[i] \in Digits

RECURSIVE Pow10(_)
Pow10(k) == IF k = 0 THEN 1 ELSE 10 * Pow10(k - 1)

(***************************************************************************)
(* Python values, tagged by their type, and the outcome of a call.         *)
(***************************************************************************)
None == [kind |-> "None"]
StrVal(s) == [kind |-> "str", chars |-> s]
IntVal(n) == [kind |-> "int", val |-> n]
\* The float mant / 10^scale.
FloatVal(mant, scale) == [kind |-> "float", mant |-> mant, scale |-> scale]
\* A member of the enumeration ChannelStatus.
StatusVal(name) == [kind |-> "ChannelStatus", name |-> name]
\* A member of the enumeration AlarmStatus.
AlarmVal(name) == [kind |-> "AlarmStatus", name |-> name]
\* A Python bool.
BoolVal(b) == [kind |-> "bool", truth |-> b]
\* A call that ends by raising the exception exc.
Raise(exc) == [kind |-> "raise", exc |-> exc]

(***************************************************************************)
(* The conversions _parse_reply applies to the payload: type_(m.group(2)). *)
(* A conversion gives the value, or Failed where Python raises ValueError. *)
(***************************************************************************)
Failed == Raise("ValueError")

\* An optional sign, then the rest.
SignOf(s) == IF s # <<>> /\ Head(s) = "-" THEN -1 ELSE 1
Unsigned(s) == IF s # <<>> /\ Head(s) \in {"+", "-"} THEN Tail(s) ELSE s

\* int(str): blanks stripped, an optional sign, one or more digits.
int(s) ==
    LET body == Unsigned(strip(s)) IN
    IF body # <<>> /\ AllDigits(body)
    THEN IntVal(SignOf(strip(s)) * DecVal(body))
    ELSE Failed

\* The float mant / 10^scale, without trailing zeros in the fraction, so that
\* equal numbers are equal values.
RECURSIVE Normal(_, _)
Normal(mant, scale) ==
    IF scale > 0 /\ mant % 10 = 0 THEN Normal(mant \div 10, scale - 1)
    ELSE FloatVal(mant, scale)

\* float(str): blanks stripped, an optional sign, digits with an optional
\* point, at least one digit on one side of it (exponents, inf and nan need
\* letters that do not occur in the modelled payloads).
float(s) ==
    LET body == Unsigned(strip(s))
        n == DigitRun(body, 1)
        rest == From(body, n + 1)
        frac == IF rest # <<>> /\ Head(rest) = "." THEN Tail(rest) ELSE <<>>
        wellFormed ==
            /\ rest = <<>> \/ Head(rest) = "."
            /\ AllDigits(frac)
            /\ n + Len(frac) > 0
    IN  IF wellFormed
        THEN Normal(SignOf(strip(s))
                      * (DecVal(SubSeq(body, 1, n)) * Pow10(Len(frac))
                         + DecVal(frac)),
                    Len(frac))
        ELSE Failed

\* str(str)
str(s) == StrVal(s)

\* The type descriptors a caller passes as type_.
Types == {"None", "float", "int", "str"}

Convert(type_, s) ==
    CASE type_ = "float" -> float(s)
      [] type_ = "int" -> int(s)
      [] type_ = "str" -> str(s)

(***************************************************************************)
(* The reply decoder.                                                      *)
(***************************************************************************)
BD == <<"#", "B", "D", ":">>
ERR == <<":", "E", "R", "R">>
OKVAL == <<",", "C", "M", "D", ":", "O", "K", ",", "V", "A", "L", ":">>

\* A faulty MatchError, which takes the board id of an error frame to have
\* exactly two digits, as the success pattern does.
MatchError_TwoDigits(tag, reply) ==
    /\ StartsWith(reply, BD)
    /\ DigitRun(reply, 5) = 2
    /\ From(reply, 7) \in {<<",">> \o tag \o ERR \o CRLF \o e : e \in {<<>>, <<LF>>}}

\* re.match(r"#BD:[0-9]+,<tag>:ERR\r\n$", reply): the match starts at the
\* first character; $ accepts the end of the string or one last LF.
MatchError(tag, reply) ==
    LET n == DigitRun(reply, 5)
        rest == From(reply, 5 + n)
        tail == <<",">> \o tag \o ERR \o CRLF
    IN  /\ StartsWith(reply, BD)
        /\ n >= 1
        /\ rest = tail \/ rest = tail \o <<LF>>

\* Caen1471.__check_error: the exception raised, "None" when it returns.
check_error(reply) ==
    CASE MatchError(<<"C", "M", "D">>, reply) -> "UnknownCommandError"
      [] MatchError(<<"C", "H">>, reply) -> "ChannelError"
      [] MatchError(<<"P", "A", "R">>, reply) -> "ParameterError"
      [] MatchError(<<"V", "A", "L">>, reply) -> "ValueError"
      [] MatchError(<<"L", "O", "C">>, reply) -> "PermissionError"
      [] OTHER -> "None"

\* A faulty MatchSuccess, which takes a success frame only when its board id
\* is that of module 0.
MatchSuccess_OwnId(s) ==
    LET rest == From(s, 19)
        lf == FirstLF(rest, 1)
    IN  IF /\ StartsWith(s, BD \o <<"0", "0">> \o OKVAL)
           /\ lf >= 2
           /\ rest[lf - 1] = CR
        THEN [matched |-> TRUE, group2 |-> SubSeq(rest, 1, lf - 2)]
        ELSE [matched |-> FALSE]

\* re.match(r"#BD:([0-9]{2}),CMD:OK,VAL:(.*)\r\n", s): group 2 is greedy and
\* takes no LF, so it ends right before the CR that precedes the first LF.
\* [matched |-> TRUE, group2 |-> payload] or [matched |-> FALSE].
MatchSuccess(s) ==
    LET rest == From(s, 19)
        lf == FirstLF(rest, 1)
    IN  IF /\ StartsWith(s, BD)
           /\ DigitRun(s, 5) >= 2
           /\ StartsWith(From(s, 7), OKVAL)
           /\ lf >= 2
           /\ rest[lf - 1] = CR
        THEN [matched |-> TRUE, group2 |-> SubSeq(rest, 1, lf - 2)]
        ELSE [matched |-> FALSE]

\* A faulty _parse_reply, which lets the ValueError of a failed conversion
\* through instead of raising InvalidReplyError.
parse_reply_NoCatch(line, t) ==
    LET err == check_error(line)
        m == MatchSuccess(lstrip(line))
    IN  IF err # "None" THEN Raise(err)
        ELSE IF m.matched
        THEN IF t # "None" THEN Convert(t, m.group2) ELSE StrVal(m.group2)
        ELSE None

\* A faulty _parse_reply, which raises InvalidReplyError for a line that is
\* neither an error frame nor a success frame.
parse_reply_Strict(line, t) ==
    LET err == check_error(line)
        m == MatchSuccess(lstrip(line))
    IN  IF err # "None" THEN Raise(err)
        ELSE IF m.matched
        THEN IF t # "None"
             THEN IF Convert(t, m.group2) = Failed
                  THEN Raise("InvalidReplyError")
                  ELSE Convert(t, m.group2)
             ELSE StrVal(m.group2)
        ELSE Raise("InvalidReplyError")

\* Caen1471._parse_reply
parse_reply(reply, type_) ==
    LET err == check_error(reply)
        m == MatchSuccess(lstrip(reply))
    IN  IF err # "None" THEN Raise(err)
        ELSE IF m.matched
        THEN IF type_ # "None"
             THEN IF Convert(type_, m.group2) = Failed
                  THEN Raise("InvalidReplyError")
                  ELSE Convert(type_, m.group2)
             ELSE StrVal(m.group2)
        ELSE None

(***************************************************************************)
(* The reply lines and payloads the decoder is run on.                     *)
(***************************************************************************)
\* Strings of 0..n characters over the set chars.
RECURSIVE StringsUpTo(_, _)
StringsUpTo(chars, n) ==
    IF n = 0 THEN {<<>>}
    ELSE LET shorter == StringsUpTo(chars, n - 1)
         IN  shorter \cup {<<c>> \o w : c \in chars, w \in shorter}

\* Board ids as they stand in a reply: none, one, two or more digits.
IdDigits == {"0", "7"}
Ids == StringsUpTo(IdDigits, MaxIdLen)

Payloads ==
    { <<"1", "2", "3", ".", "4">>, <<"1", "2">>, <<"-", "5">>, <<>>,
      <<"O", "N">>, <<"1", ".">>, <<".">>, <<".", "5">>, <<" ", "7">>,
      <<"1", " ", "2">>, <<"+", "3">>, <<"0", ".", "5", "0">>,
      <<"1", ";", "2">>, <<"7", CR>> }

ErrTags ==
    { <<"C", "M", "D">>, <<"C", "H">>, <<"P", "A", "R">>, <<"V", "A", "L">>,
      <<"L", "O", "C">> }

\* What follows the board id, up to the line terminator.
Bodies ==
    {<<",">> \o tag \o ERR : tag \in ErrTags}
      \cup {OKVAL \o p : p \in Payloads}
      \cup { <<",", "C", "M", "D", ":", "O", "K">>,
             <<",", "C", "M", "D", ":", "E", "R">> }

Leads == {<<>>, <<" ">>}
Ends == {CRLF, <<LF>>, <<>>, <<CR>>, CRLF \o <<LF>>, CRLF \o <<"x">>}

ReplyInputs ==
    {lead \o BD \o id \o body \o end :
        lead \in Leads, id \in Ids, body \in Bodies, end \in Ends}
      \cup {<<>>, <<"x", CR, LF>>}

(***************************************************************************)
(* Status decoding.                                                        *)
(***************************************************************************)
\* Caen1471.ChannelStatus: the member of value v is ChannelStatus[v + 1].
ChannelStatus ==
    << "OFF", "ON", "RAMPING_UP", "RAMPING_DOWN", "OVER_CURRENT",
       "OVER_VOLTAGE", "UNDER_VOLTAGE", "MAX_VOLTAGE", "TRIPPED",
       "OVER_POWERED", "OVER_TEMPERATURE", "DISABLED", "KILLED",
       "INTERLOCKED", "NO_CALIBRATION" >>

RECURSIVE Pow2(_)
Pow2(k) == IF k = 0 THEN 1 ELSE 2 * Pow2(k - 1)

\* state & (1 << k), as a truth value
BitSet(state, k) == (state \div Pow2(k)) % 2 = 1

\* A faulty ScanStatus, which scans the members upwards from ON, so that the
\* lowest set bit wins.
ScanStatus_LowestFirst(state, v) ==
    LET set == {w \in 1..v : BitSet(state, w - 1)} IN
    IF set = {} THEN ChannelStatus[1]
    ELSE ChannelStatus[(CHOOSE w \in set : \A x \in set : w <= x) + 1]

\* The loop of _parse_state from the member of value v downwards.
RECURSIVE ScanStatus(_, _)
ScanStatus(state, v) ==
    IF v = 0 THEN ChannelStatus[1]
    ELSE IF BitSet(state, v - 1) THEN ChannelStatus[v + 1]
    ELSE ScanStatus(state, v - 1)

\* Caen1471.ChannelStatus._parse_state
parse_state(state) == ScanStatus(state, Len(ChannelStatus) - 1)

\* Caen1471.AlarmStatus: the member of value 0, then the member of value
\* 1 << k at position k + 2.
AlarmStatusMembers ==
    << "NO_ALARM", "CHANNEL_0_ALARM", "CHANNEL_1_ALARM", "CHANNEL_2_ALARM",
       "CHANNEL_3_ALARM", "BOARD_POWER_FAIL", "BOARD_OVER_POWER",
       "BOARD_HV_CLOCK_FAIL" >>

\* Caen1471.AlarmStatus(value): the lookup of an Enum member by its value,
\* which raises ValueError when no member has that value.
AlarmStatus(value) ==
    IF value = 0 THEN AlarmVal(AlarmStatusMembers[1])
    ELSE IF \E k \in 0..(Len(AlarmStatusMembers) - 2) : value = Pow2(k)
    THEN AlarmVal(AlarmStatusMembers[
             (CHOOSE k \in 0..(Len(AlarmStatusMembers) - 2) : value = Pow2(k)) + 2])
    ELSE Raise("ValueError")

\* A faulty enabled, which takes RAMPING_DOWN for a powered channel too.
enabled_AnyRamp(status) ==
    BoolVal(status \in {StatusVal("ON"), StatusVal("RAMPING_UP"),
                        StatusVal("RAMPING_DOWN")})

\* _HVChannel.enabled, from the status that self.status has returned.
enabled(status) ==
    BoolVal(status = StatusVal("ON") \/ status = StatusVal("RAMPING_UP"))

(***************************************************************************)
(* The command encoder.                                                    *)
(***************************************************************************)
DigitChar(d) == <<"0", "1", "2", "3", "4", "5", "6", "7", "8", "9">>[d + 1]

\* str(n) of a non-negative int, as an f-string inserts it.
RECURSIVE IntStr(_)
IntStr(n) ==
    IF n < 10 THEN <<DigitChar(n)>>
    ELSE IntStr(n \div 10) \o <<DigitChar(n % 10)>>

\* The last k decimal digits of n, with leading zeros.
RECURSIVE Padded(_, _)
Padded(n, k) ==
    IF k = 0 THEN <<>> ELSE Padded(n \div 10, k - 1) \o <<DigitChar(n % 10)>>

Abs(n) == IF n < 0 THEN -n ELSE n
SignStr(n) == IF n < 0 THEN <<"-">> ELSE <<>>

\* f"{x}", which is str(x): a str as it is, an int in decimal digits, a bool
\* as True or False, a float by its shortest repr (the modelled floats are
\* within the range that repr writes without an exponent).
format(x) ==
    CASE x.kind = "str" -> x.chars
      [] x.kind = "int" -> SignStr(x.val) \o IntStr(Abs(x.val))
      [] x.kind = "bool" ->
           IF x.truth THEN <<"T", "r", "u", "e">> ELSE <<"F", "a", "l", "s", "e">>
      [] x.kind = "float" ->
           SignStr(x.mant) \o IntStr(Abs(x.mant) \div Pow10(x.scale)) \o <<".">>
             \o (IF x.scale = 0 THEN <<"0">>
                 ELSE Padded(Abs(x.mant) % Pow10(x.scale), x.scale))

\* a / 10^scale in tenths, rounded to the nearest tenth and to the even one
\* in a tie. (Python rounds the binary double: a decimal tie is a tie of the
\* double only when it is a multiple of 1/4, as the ties of SetNumbers are.)
RoundTenths(a, scale) ==
    IF scale <= 1 THEN a * Pow10(1 - scale)
    ELSE LET unit == Pow10(scale - 1)
             q == a \div unit
             r == a % unit
         IN  IF 2 * r < unit THEN q
             ELSE IF 2 * r > unit THEN q + 1
             ELSE IF q % 2 = 0 THEN q ELSE q + 1

\* The digits of t tenths with one decimal.
Tenths(t) == IntStr(t \div 10) \o <<".", DigitChar(t % 10)>>

\* "{:.1f}".format(x) of an int or a float.
format_1f(x) ==
    CASE x.kind = "int" -> SignStr(x.val) \o Tenths(10 * Abs(x.val))
      [] x.kind = "float" ->
           SignStr(x.mant) \o Tenths(RoundTenths(Abs(x.mant), x.scale))

\* An optional argument of _command: Absent (Python None) or Given(x).
Absent == <<>>
Given(x) == <<x>>

\* A faulty cmd_string, which tests the channel and the value for truth and
\* not for None, and so leaves out channel 0 and the empty value.
cmd_string_Truthy(module, cmd, par, channel, value) ==
    <<"$", "B", "D", ":">> \o IntStr(module)
      \o <<",", "C", "M", "D", ":">> \o cmd
      \o (IF channel # Absent /\ channel # Given(0)
          THEN <<",", "C", "H", ":">> \o IntStr(channel[1]) ELSE <<>>)
      \o <<",", "P", "A", "R", ":">> \o par
      \o (IF value # Absent /\ value # Given(StrVal(<<>>))
          THEN <<",", "V", "A", "L", ":">> \o format(value[1]) ELSE <<>>)
      \o CRLF

\* The command string of _command; channel is an optional int, value an
\* optional Python value, which the f-string formats.
cmd_string(module, cmd, par, channel, value) ==
    <<"$", "B", "D", ":">> \o IntStr(module)
      \o <<",", "C", "M", "D", ":">> \o cmd
      \o (IF channel # Absent THEN <<",", "C", "H", ":">> \o IntStr(channel[1])
          ELSE <<>>)
      \o <<",", "P", "A", "R", ":">> \o par
      \o (IF value # Absent THEN <<",", "V", "A", "L", ":">> \o format(value[1])
          ELSE <<>>)
      \o CRLF

(***************************************************************************)
(* The facade operations: the arguments each passes to _command.           *)
(***************************************************************************)
MON == <<"M", "O", "N">>
SET == <<"S", "E", "T">>

\* The channel the modelled _HVChannel operations act on, and the voltage the
\* modelled callers set, as "{:.1f}".format(voltage) writes it.
Channel == 0
VoltageText == <<"5", "0", "0", ".", "0">>

Ops == {"measured_voltage", "status", "module_name", "voltage.setter",
        "enabled.setter"}

Args(o) ==
    CASE o = "measured_voltage" ->
           [cmd |-> MON, par |-> <<"V", "M", "O", "N">>, channel |-> Given(Channel),
            value |-> Absent, type_ |-> "float"]
      [] o = "status" ->
           [cmd |-> MON, par |-> <<"S", "T", "A", "T">>, channel |-> Given(Channel),
            value |-> Absent, type_ |-> "int"]
      [] o = "module_name" ->
           [cmd |-> MON, par |-> <<"B", "D", "N", "A", "M", "E">>,
            channel |-> Absent, value |-> Absent, type_ |-> "None"]
      [] o = "enabled.setter" ->
           [cmd |-> SET, par |-> <<"O", "N">>, channel |-> Given(Channel),
            value |-> Absent, type_ |-> "None"]
      [] o = "voltage.setter" ->
           [cmd |-> SET, par |-> <<"V", "S", "E", "T">>, channel |-> Given(Channel),
            value |-> Given(StrVal(VoltageText)), type_ |-> "None"]
      [] o = "enabled" ->
           [cmd |-> MON, par |-> <<"S", "T", "A", "T">>, channel |-> Given(Channel),
            value |-> Absent, type_ |-> "int"]
      [] o = "alarm_status" ->
           [cmd |-> MON, par |-> <<"B", "D", "A", "L", "A", "R", "M">>,
            channel |-> Absent, value |-> Absent, type_ |-> "None"]

\* The operations that read a value from the device, and those that write.
ReadOps == {o \in Ops : Args(o).cmd = MON}
WriteOps == {o \in Ops : Args(o).cmd = SET}

\* _HVChannel.status, from the response of _command: None & int raises
\* TypeError.
status(response) ==
    IF response = None THEN Raise("TypeError")
    ELSE StatusVal(parse_state(response.val))

\* Caen1471.alarm_status, from the response of _command: int(None) raises
\* TypeError, int of a string that is no number raises ValueError.
alarm_status(response) ==
    IF response = None THEN Raise("TypeError")
    ELSE IF int(response.chars) = Failed THEN Failed
    ELSE AlarmStatus(int(response.chars).val)

\* What the facade operation o makes of the response of _command: status
\* decodes it, enabled compares the decoded status, alarm_status looks the
\* member up, a setter discards it, the other getters return it.
Finish(o, response) ==
    CASE o = "status" -> status(response)
      [] o = "enabled" ->
           IF status(response).kind = "raise" THEN status(response)
           ELSE enabled(status(response))
      [] o = "alarm_status" -> alarm_status(response)
      [] o \in WriteOps -> None
      [] OTHER -> response

(***************************************************************************)
(* The setters: what each passes to _command for the value x it is given.  *)
(***************************************************************************)
\* A member of the enumeration MonitoringRange, whose value is its name.
RangeVal(name) == [kind |-> "MonitoringRange", value |-> name]

NumberSetters ==
    {"voltage", "current_limit", "trip_time", "voltage_limit",
     "ramp_down_rate", "ramp_up_rate"}
Setters ==
    NumberSetters \cup {"imon_range", "enabled", "power_down_mode",
                        "interlock_mode"}

\* The numbers the modelled callers set: ints and floats of zero to two
\* decimals.
SetNumbers ==
    { IntVal(5), IntVal(0), IntVal(120), FloatVal(5, 0), FloatVal(125, 1),
      FloatVal(-35, 1), FloatVal(1024, 2), FloatVal(1026, 2), FloatVal(25, 2),
      FloatVal(75, 2) }

\* The values each setter is given.
SetValues(name) ==
    CASE name \in NumberSetters -> SetNumbers
      [] name = "imon_range" ->
           {RangeVal(<<"L", "O", "W">>), RangeVal(<<"H", "I", "G", "H">>)}
      [] name = "enabled" -> {BoolVal(TRUE), BoolVal(FALSE)}
      [] name = "power_down_mode" ->
           {BoolVal(TRUE), StrVal(<<"R", "A", "M", "P">>),
            StrVal(<<"K", "I", "L", "L">>)}
      [] name = "interlock_mode" ->
           {StrVal(<<"O", "P", "E", "N">>), StrVal(<<"C", "L", "O", "S", "E", "D">>)}

\* The parameter, channel and value of the SET command of each setter.
SetArgs(name, x) ==
    CASE name = "voltage" ->
           [par |-> <<"V", "S", "E", "T">>, channel |-> Given(Channel),
            value |-> Given(StrVal(format_1f(x)))]
      [] name = "current_limit" ->
           [par |-> <<"I", "S", "E", "T">>, channel |-> Given(Channel),
            value |-> Given(StrVal(format_1f(x)))]
      [] name = "imon_range" ->
           [par |-> <<"I", "M", "R", "A", "N", "G", "E">>,
            channel |-> Given(Channel), value |-> Given(StrVal(x.value))]
      [] name = "enabled" ->
           [par |-> IF x.truth THEN <<"O", "N">> ELSE <<"O", "F", "F">>,
            channel |-> Given(Channel), value |-> Absent]
      [] name = "trip_time" ->
           [par |-> <<"T", "R", "I", "P">>, channel |-> Given(Channel),
            value |-> Given(x)]
      [] name = "voltage_limit" ->
           [par |-> <<"M", "A", "X", "V">>, channel |-> Given(Channel),
            value |-> Given(x)]
      [] name = "ramp_down_rate" ->
           [par |-> <<"R", "D", "W">>, channel |-> Given(Channel),
            value |-> Given(x)]
      [] name = "ramp_up_rate" ->
           [par |-> <<"R", "U", "P">>, channel |-> Given(Channel),
            value |-> Given(x)]
      [] name = "power_down_mode" ->
           [par |-> <<"P", "D", "W", "N">>, channel |-> Given(Channel),
            value |-> Given(x)]
      [] name = "interlock_mode" ->
           [par |-> <<"B", "D", "I", "L", "K", "M">>, channel |-> Absent,
            value |-> Given(x)]

(***************************************************************************)
(* The facade, its callers and the device.                                 *)
(***************************************************************************)
\* The threads that share one Caen1471 instance.
Threads == {"t1", "t2"}

\* The acquisition budget of _command, in seconds.
AcquireBudget == 5
\* The read timeout the constructor gives the serial connection, in seconds.
ReadTimeout == 1

\* The lines the modelled device answers a request with.
Line(body) == BD \o <<"0", "0">> \o body \o CRLF
DeviceReplies ==
    { Line(OKVAL \o <<"1", "2", ".", "5">>),
      Line(OKVAL \o <<"5">>),
      Line(<<",", "C", "M", "D", ":", "O", "K">>),
      Line(<<",", "C", "M", "D">> \o ERR),
      Line(<<",", "V", "A", "L">> \o ERR),
      Line(<<",", "L", "O", "C">> \o ERR),
      <<"x", CR, LF>> }

\* The outcome of a thread that has not finished an operation.
Pending == [kind |-> "pending"]

VARIABLES
    module,        \* Caen1471.module
    busy,          \* Caen1471.__busy
    is_open,       \* Caen1471.connection.is_open
    unanswered,    \* the requests the device has not answered yet: the line
                   \* written and the call that wrote it
    rxbuf,         \* the input buffer of the connection: for each line in
                   \* it, the call whose request the line answers
    calls,         \* number of facade operations started
    pc,            \* pc[t]: the statement of _command thread t is at
    op,            \* op[t]: the facade operation thread t runs, or ran last
    waited,        \* waited[t]: time() - start of t in _command, in seconds
    reading,       \* reading[t]: seconds the readline of t has lasted
    response,      \* response[t]: the local response of _command
    outcome,       \* outcome[t]: how the last operation of t ended
    nwrite,        \* nwrite[t]: writes of the current operation of t
    nread,         \* nread[t]: readlines of the current operation of t
    open_at_call,  \* open_at_call[t]: is_open when the operation of t began
    exchange,      \* exchange[t]: the number of the call t runs, 0 for none
    reply,         \* the reply given to _parse_reply when it is run on its own
    type_,         \* the type_ given to it
    parsed,        \* its result
    word,          \* the status or alarm word a getter is run on, on its own
    shown,         \* the getter that was run on it, and what it returned
    request,       \* the call whose command string is built, on its own
    sent           \* the command string built for it, empty before

facade == <<module, busy, is_open>>
transport == <<unanswered, rxbuf>>
locals == <<pc, op, waited, reading, response, outcome, nwrite, nread,
            open_at_call, exchange>>
decoder == <<reply, type_, parsed>>
getters == <<word, shown>>
encoder == <<request, sent>>
apart == <<decoder, getters, encoder>>
vars == <<facade, transport, locals, calls, apart>>

\* No getter is run on its own.
GettersAtRest == word = 0 /\ shown = Pending

\* No command string is built on its own.
NoRequest == [kind |-> "none"]
NotBuilt == <<>>
EncoderAtRest == request = NoRequest /\ sent = NotBuilt

\* The state after Caen1471.__init__ on a port that opens.
Init ==
    /\ module = 0
    /\ busy = FALSE
    /\ is_open = TRUE
    /\ unanswered = <<>>
    /\ rxbuf = <<>>
    /\ calls = 0
    /\ pc = [t \in Threads |-> "idle"]
    /\ op = [t \in Threads |-> "none"]
    /\ waited = [t \in Threads |-> 0]
    /\ reading = [t \in Threads |-> 0]
    /\ response = [t \in Threads |-> None]
    /\ outcome = [t \in Threads |-> Pending]
    /\ nwrite = [t \in Threads |-> 0]
    /\ nread = [t \in Threads |-> 0]
    /\ open_at_call = [t \in Threads |-> TRUE]
    /\ exchange = [t \in Threads |-> 0]
    /\ reply = <<>>
    /\ type_ = "None"
    /\ parsed = Pending
    /\ GettersAtRest
    /\ EncoderAtRest

\* Thread t leaves the facade operation with result: a value or an exception.
End(t, result) ==
    /\ pc' = [pc EXCEPT ![t] = "idle"]
    /\ outcome' = [outcome EXCEPT ![t] = result]
    /\ waited' = [waited EXCEPT ![t] = 0]
    /\ reading' = [reading EXCEPT ![t] = 0]
    /\ response' = [response EXCEPT ![t] = None]
    /\ exchange' = [exchange EXCEPT ![t] = 0]

\* Thread t goes on to the statement at label.
Goto(t, label) == pc' = [pc EXCEPT ![t] = label]

\* A thread calls the facade operation o, which calls _command:
\* start = time()
Call(t, o) ==
    /\ pc[t] = "idle"
    /\ calls < MaxCalls
    /\ calls' = calls + 1
    /\ op' = [op EXCEPT ![t] = o]
    /\ waited' = [waited EXCEPT ![t] = 0]
    /\ outcome' = [outcome EXCEPT ![t] = Pending]
    /\ nwrite' = [nwrite EXCEPT ![t] = 0]
    /\ nread' = [nread EXCEPT ![t] = 0]
    /\ open_at_call' = [open_at_call EXCEPT ![t] = is_open]
    /\ exchange' = [exchange EXCEPT ![t] = calls + 1]
    /\ Goto(t, "while")
    /\ UNCHANGED <<facade, transport, reading, response, apart>>

\* while self.__busy: (start is not read once the loop is left)
WhileBusy(t) ==
    /\ pc[t] = "while"
    /\ IF busy
       THEN Goto(t, "if_time") /\ UNCHANGED waited
       ELSE Goto(t, "set_busy") /\ waited' = [waited EXCEPT ![t] = 0]
    /\ UNCHANGED <<facade, transport, op, reading, response, outcome,
                   nwrite, nread, open_at_call, exchange, calls, apart>>

\* A faulty IfTime, which clears the busy flag of the holder when it gives up.
IfTime_Releases(t) ==
    /\ pc[t] = "if_time"
    /\ IF waited[t] > AcquireBudget
       THEN End(t, Raise("TimeoutError")) /\ busy' = FALSE
       ELSE Goto(t, "while")
              /\ UNCHANGED <<waited, reading, response, outcome, exchange, busy>>
    /\ UNCHANGED <<module, is_open, transport, op, nwrite, nread,
                   open_at_call, calls, apart>>

\* A faulty IfTime, which has no ceiling: it goes back to the loop however
\* long the wait has lasted.
IfTime_NoCeiling(t) ==
    /\ pc[t] = "if_time"
    /\ Goto(t, "while")
    /\ UNCHANGED <<facade, transport, op, waited, reading, response, outcome,
                   nwrite, nread, open_at_call, exchange, calls, apart>>

\* if time() - start > 5: raise TimeoutError(...)
IfTime(t) ==
    /\ pc[t] = "if_time"
    /\ IF waited[t] > AcquireBudget
       THEN End(t, Raise("TimeoutError"))
       ELSE Goto(t, "while")
              /\ UNCHANGED <<waited, reading, response, outcome, exchange>>
    /\ UNCHANGED <<facade, transport, op, nwrite, nread, open_at_call,
                   calls, apart>>

\* self.__busy = True
SetBusy(t) ==
    /\ pc[t] = "set_busy"
    /\ busy' = TRUE
    /\ Goto(t, "if_open")
    /\ UNCHANGED <<module, is_open, transport, op, waited, reading, response,
                   outcome, nwrite, nread, open_at_call, exchange, calls, apart>>

\* A faulty IfNotOpen, which goes on to the write without the check.
IfNotOpen_Skipped(t) ==
    /\ pc[t] = "if_open"
    /\ Goto(t, "write")
    /\ UNCHANGED <<facade, transport, op, waited, reading, response, outcome,
                   nwrite, nread, open_at_call, exchange, calls, apart>>

\* if not self.connection or not self.connection.is_open:
\*     raise ConnectionError()
IfNotOpen(t) ==
    /\ pc[t] = "if_open"
    /\ IF ~is_open
       THEN End(t, Raise("ConnectionError"))
       ELSE Goto(t, "write")
              /\ UNCHANGED <<waited, reading, response, outcome, exchange>>
    /\ UNCHANGED <<facade, transport, op, nwrite, nread, open_at_call,
                   calls, apart>>

\* self.connection.write(cmd_string.encode("ascii")); serial.Serial.write
\* raises on a port that was closed in the meantime.
Write(t) ==
    /\ pc[t] = "write"
    /\ IF is_open
       THEN /\ unanswered' =
                 Append(unanswered,
                        [line |-> cmd_string(module, Args(op[t]).cmd,
                                             Args(op[t]).par,
                                             Args(op[t]).channel,
                                             Args(op[t]).value),
                         exchange |-> exchange[t]])
            /\ nwrite' = [nwrite EXCEPT ![t] = @ + 1]
            /\ reading' = [reading EXCEPT ![t] = 0]
            /\ Goto(t, "readline")
            /\ UNCHANGED <<waited, response, outcome, exchange>>
       ELSE /\ End(t, Raise("PortNotOpenError"))
            /\ UNCHANGED <<unanswered, nwrite>>
    /\ UNCHANGED <<facade, rxbuf, op, nread, open_at_call, calls,
                   apart>>

\* The rest of _command once readline has returned the string line:
\* response = self._parse_reply(line, type_=type_), which may raise.
Parse(t, line) ==
    LET r == parse_reply(line, Args(op[t]).type_) IN
    IF r.kind = "raise"
    THEN End(t, r)
    ELSE /\ response' = [response EXCEPT ![t] = r]
         /\ Goto(t, "release")
         /\ UNCHANGED <<waited, reading, outcome, exchange>>

\* self.connection.readline() returns the first line of the input buffer.
\* What the device wrote in a line shows only here, so the line is chosen
\* here: it is the line r.
ReadLine(t, r) ==
    /\ pc[t] = "readline"
    /\ is_open
    /\ rxbuf # <<>>
    /\ rxbuf' = Tail(rxbuf)
    /\ nread' = [nread EXCEPT ![t] = @ + 1]
    /\ Parse(t, r)
    /\ UNCHANGED <<facade, unanswered, op, nwrite, open_at_call,
                   calls, apart>>

\* self.connection.readline() returns the empty string when no line has come
\* within the read timeout.
ReadLineTimeout(t) ==
    /\ pc[t] = "readline"
    /\ is_open
    /\ rxbuf = <<>>
    /\ reading[t] >= ReadTimeout
    /\ nread' = [nread EXCEPT ![t] = @ + 1]
    /\ Parse(t, <<>>)
    /\ UNCHANGED <<facade, transport, op, nwrite, open_at_call, calls,
                   apart>>

\* self.connection.readline() raises on a port that was closed in the
\* meantime.
ReadLineClosed(t) ==
    /\ pc[t] = "readline"
    /\ ~is_open
    /\ End(t, Raise("PortNotOpenError"))
    /\ UNCHANGED <<facade, transport, op, nwrite, nread, open_at_call,
                   calls, apart>>

\* self.__busy = False; return response, and the facade operation returns.
Release(t) ==
    /\ pc[t] = "release"
    /\ busy' = FALSE
    /\ End(t, Finish(op[t], response[t]))
    /\ UNCHANGED <<module, is_open, transport, op, nwrite, nread,
                   open_at_call, calls, apart>>

\* Caen1471.disconnect: self.connection.close(). The port is never opened
\* again, so what was in flight on it is lost.
Disconnect ==
    /\ is_open' = FALSE
    /\ unanswered' = <<>>
    /\ rxbuf' = <<>>
    /\ UNCHANGED <<module, busy, locals, calls, apart>>

\* The line the device answers its oldest request with reaches the input
\* buffer.
DeviceReply ==
    /\ is_open
    /\ unanswered # <<>>
    /\ unanswered' = Tail(unanswered)
    /\ rxbuf' = Append(rxbuf, Head(unanswered).exchange)
    /\ UNCHANGED <<facade, locals, calls, apart>>

Min(a, b) == IF a < b THEN a ELSE b

\* A second passes: time() - start grows for the threads in the loop, and so
\* does the time spent in readline for those in readline. A wait is followed
\* up to the first second at which its comparison holds, after which the
\* code cannot tell one second from the next.
Tick ==
    /\ waited' = [t \in Threads |->
                    IF pc[t] \in {"while", "if_time"}
                    THEN Min(waited[t] + 1, AcquireBudget + 1) ELSE waited[t]]
    /\ reading' = [t \in Threads |->
                     IF pc[t] = "readline"
                     THEN Min(reading[t] + 1, ReadTimeout) ELSE reading[t]]
    /\ <<waited', reading'>> # <<waited, reading>>
    /\ UNCHANGED <<facade, transport, pc, op, response, outcome, nwrite,
                   nread, open_at_call, exchange, calls, apart>>

Next ==
    \/ \E t \in Threads, o \in Ops : Call(t, o)
    \/ \E t \in Threads : WhileBusy(t)
    \/ \E t \in Threads : IfTime(t)
    \/ \E t \in Threads : SetBusy(t)
    \/ \E t \in Threads : IfNotOpen(t)
    \/ \E t \in Threads : Write(t)
    \/ \E t \in Threads, r \in DeviceReplies : ReadLine(t, r)
    \/ \E t \in Threads : ReadLineTimeout(t)
    \/ \E t \in Threads : ReadLineClosed(t)
    \/ \E t \in Threads : Release(t)
    \/ Disconnect
    \/ DeviceReply
    \/ Tick

Spec == Init /\ [][Next]_vars

\* A statement of _command run by thread t.
Step(t) ==
    \/ WhileBusy(t)
    \/ IfTime(t)
    \/ SetBusy(t)
    \/ IfNotOpen(t)
    \/ Write(t)
    \/ \E r \in DeviceReplies : ReadLine(t, r)
    \/ ReadLineTimeout(t)
    \/ ReadLineClosed(t)
    \/ Release(t)

\* The exchange where the clock advances and every thread that is in
\* _command gets to run: time() goes on, and so does the timeout of the
\* serial connection. Nothing is assumed of the callers, of the device or of
\* disconnect.
FairSpec ==
    /\ Spec
    /\ WF_vars(Tick)
    /\ \A t \in Threads : WF_vars(Step(t))

(***************************************************************************)
(* The reply decoder on its own: _parse_reply is run once on a reply line  *)
(* and a type descriptor drawn from the inputs above.                      *)
(***************************************************************************)
InitDecode ==
    /\ module = 0
    /\ busy = FALSE
    /\ is_open = TRUE
    /\ unanswered = <<>>
    /\ rxbuf = <<>>
    /\ calls = 0
    /\ pc = [t \in Threads |-> "idle"]
    /\ op = [t \in Threads |-> "none"]
    /\ waited = [t \in Threads |-> 0]
    /\ reading = [t \in Threads |-> 0]
    /\ response = [t \in Threads |-> None]
    /\ outcome = [t \in Threads |-> Pending]
    /\ nwrite = [t \in Threads |-> 0]
    /\ nread = [t \in Threads |-> 0]
    /\ open_at_call = [t \in Threads |-> TRUE]
    /\ exchange = [t \in Threads |-> 0]
    /\ reply \in ReplyInputs
    /\ type_ \in Types
    /\ parsed = Pending
    /\ GettersAtRest
    /\ EncoderAtRest

\* self._parse_reply(reply, type_)
Decode ==
    /\ parsed = Pending
    /\ parsed' = parse_reply(reply, type_)
    /\ UNCHANGED <<facade, transport, locals, calls, reply, type_, getters,
                   encoder>>

NextDecode == Decode

SpecDecode == InitDecode /\ [][NextDecode]_vars

(***************************************************************************)
(* The getters that decode a word of bits, on their own: status, enabled   *)
(* or alarm_status is run once on the word the device has answered with.   *)
(***************************************************************************)
\* The facade and the decoder as Init leaves them.
ExchangeAtRest ==
    /\ module = 0
    /\ busy = FALSE
    /\ is_open = TRUE
    /\ unanswered = <<>>
    /\ rxbuf = <<>>
    /\ calls = 0
    /\ pc = [t \in Threads |-> "idle"]
    /\ op = [t \in Threads |-> "none"]
    /\ waited = [t \in Threads |-> 0]
    /\ reading = [t \in Threads |-> 0]
    /\ response = [t \in Threads |-> None]
    /\ outcome = [t \in Threads |-> Pending]
    /\ nwrite = [t \in Threads |-> 0]
    /\ nread = [t \in Threads |-> 0]
    /\ open_at_call = [t \in Threads |-> TRUE]
    /\ exchange = [t \in Threads |-> 0]

DecoderAtRest == reply = <<>> /\ type_ = "None" /\ parsed = Pending

\* The words of up to MaxStateBits bits.
Words == 0..(Pow2(MaxStateBits) - 1)

InitGetters ==
    /\ ExchangeAtRest
    /\ DecoderAtRest
    /\ word \in Words
    /\ shown = Pending
    /\ EncoderAtRest

\* The getter o returns, after _command has returned response.
Get(o, resp) ==
    /\ shown = Pending
    /\ shown' = [op |-> o, result |-> Finish(o, resp)]
    /\ UNCHANGED <<facade, transport, locals, calls, decoder, word, encoder>>

\* _HVChannel.status, where _command returns the word as type_=int gives it.
GetStatus == Get("status", IntVal(word))

\* _HVChannel.enabled, likewise.
GetEnabled == Get("enabled", IntVal(word))

\* Caen1471.alarm_status, where _command returns the payload as a string,
\* the word in decimal digits.
GetAlarmStatus == Get("alarm_status", StrVal(IntStr(word)))

NextGetters == GetStatus \/ GetEnabled \/ GetAlarmStatus

SpecGetters == InitGetters /\ [][NextGetters]_vars

(***************************************************************************)
(* The command encoder on its own: the command string is built once, for a *)
(* call of _command with arguments drawn from the sets below, or for a     *)
(* setter and the value it is given.                                       *)
(***************************************************************************)
CommandPars == {<<"V", "S", "E", "T">>, <<"B", "D", "N", "A", "M", "E">>}
CommandValues ==
    { StrVal(<<"5", "0", "0", ".", "0">>), StrVal(<<>>),
      StrVal(<<"H", "I", "G", "H">>), IntVal(10), FloatVal(25, 1) }

CommandInputs ==
    [ kind : {"command"},
      module : 0..MaxModule,
      cmd : {MON, SET},
      par : CommandPars,
      channel : {Absent} \cup {Given(c) : c \in 0..MaxChannel},
      value : {Absent} \cup {Given(v) : v \in CommandValues} ]

SetterInputs ==
    UNION {[kind : {"setter"}, name : {n}, x : SetValues(n)] : n \in Setters}

InitEncoder ==
    /\ ExchangeAtRest
    /\ DecoderAtRest
    /\ GettersAtRest
    /\ request \in CommandInputs \cup SetterInputs
    /\ sent = NotBuilt

\* _command builds the command string of a facade whose module id is
\* request.module, up to the write.
BuildCommand ==
    /\ request.kind = "command"
    /\ sent = NotBuilt
    /\ sent' = cmd_string(request.module, request.cmd, request.par,
                          request.channel, request.value)
    /\ UNCHANGED <<facade, transport, locals, calls, decoder, getters, request>>

\* A setter calls _command, which builds the command string.
SetAttr ==
    /\ request.kind = "setter"
    /\ sent = NotBuilt
    /\ sent' = cmd_string(module, SET, SetArgs(request.name, request.x).par,
                          SetArgs(request.name, request.x).channel,
                          SetArgs(request.name, request.x).value)
    /\ UNCHANGED <<facade, transport, locals, calls, decoder, getters, request>>

NextEncoder == BuildCommand \/ SetAttr

SpecEncoder == InitEncoder /\ [][NextEncoder]_vars

(***************************************************************************)
(* Properties of the exchange (checked under Spec).                        *)
(***************************************************************************)
\* Thread t has finished a facade operation and has not begun another.
Ended(t) == pc[t] = "idle" /\ outcome[t] # Pending

\* Thread t has written its request and its readline has not returned.
InFlight(t) == pc[t] = "readline"

\* Thread t has marked the channel busy in the operation it runs.
Holding(t) == pc[t] \in {"if_open", "write", "readline", "release"}

\* C1: two concurrent exchanges never interleave on the wire: at most one
\* caller is between its write and the end of its readline.
C1_ExchangesNeverInterleave ==
    Cardinality({t \in Threads : InFlight(t)}) <= 1

\* C2: the busy flag is released on every exit path of _command: when a call
\* that marked the channel busy ends, by a value or by an exception, busy is
\* False afterwards.
C2_BusyReleasedOnEveryExit ==
    [][\A t \in Threads : Holding(t) /\ pc'[t] = "idle" => ~busy']_vars

\* Thread t is the only caller the facade has had.
OnlyCaller(t) == \A u \in Threads \ {t} : op[u] = "none"

\* C3: once the connection is closed, every operation begun afterwards fails
\* with ConnectionError (not with Timeout) and writes nothing. It is stated
\* for the only caller of the facade, whom no other thread keeps waiting.
C3_ClosedMeansConnectionError ==
    \A t \in Threads :
        Ended(t) /\ ~open_at_call[t] /\ OnlyCaller(t) =>
            outcome[t] = Raise("ConnectionError") /\ nwrite[t] = 0

\* C4: a call that has found the busy flag set and whose wait has exceeded
\* the 5-second budget can only fail with TimeoutError; it has written and
\* read nothing, and the step leaves the busy flag and the transport as
\* they were.
C4_TimeoutSendsNothing ==
    [][\A t \in Threads :
          pc[t] = "if_time" /\ waited[t] > AcquireBudget /\ pc'[t] # pc[t] =>
              /\ pc'[t] = "idle"
              /\ outcome'[t] = Raise("TimeoutError")
              /\ nwrite'[t] = 0 /\ nread'[t] = 0
              /\ busy' = busy
              /\ transport' = transport]_vars

\* A caller has given up with TimeoutError while the flag stays set.
C4_Witness ==
    \E t \in Threads :
        Ended(t) /\ outcome[t] = Raise("TimeoutError") /\ busy

\* C5 as claimed: a call that acquires the channel with an open connection
\* ends after exactly one write and then exactly one readline, and a call
\* that finds the connection not open fails with ConnectionError before any
\* write.
C5_OneWriteThenOneRead ==
    \A t \in Threads :
        /\ nread[t] <= nwrite[t]
        /\ Ended(t) =>
              IF outcome[t] \in {Raise("TimeoutError"), Raise("ConnectionError")}
              THEN nwrite[t] = 0 /\ nread[t] = 0
              ELSE nwrite[t] = 1 /\ nread[t] = 1

\* C5 as amended: a call that passes the open check completes exactly one
\* write and then exactly one readline, unless the write or the readline
\* itself raises because the connection was closed in the meantime; the call
\* then ends with that exception, after at most the one write and with no
\* readline completed. A readline never precedes the write, and a call
\* begun on a closed connection writes nothing and does not get as far as the
\* transport.
C5_OneWriteThenOneReadWhileOpen ==
    \A t \in Threads :
        /\ nread[t] <= nwrite[t]
        /\ nwrite[t] <= 1
        /\ Ended(t) =>
              /\ outcome[t] \in {Raise("TimeoutError"), Raise("ConnectionError")}
                    => nwrite[t] = 0 /\ nread[t] = 0
              /\ outcome[t] = Raise("PortNotOpenError")
                    => ~is_open /\ open_at_call[t] /\ nread[t] = 0
              /\ outcome[t] \notin {Raise("TimeoutError"),
                                    Raise("ConnectionError"),
                                    Raise("PortNotOpenError")}
                    => nwrite[t] = 1 /\ nread[t] = 1
              /\ ~open_at_call[t]
                    => /\ nwrite[t] = 0
                       /\ outcome[t] \in {Raise("TimeoutError"),
                                          Raise("ConnectionError")}

\* A read of the measured voltage has returned a value after one write and
\* one readline.
C5_Witness ==
    \E t \in Threads :
        /\ Ended(t)
        /\ op[t] = "measured_voltage"
        /\ outcome[t] = FloatVal(5, 0)
        /\ nwrite[t] = 1 /\ nread[t] = 1

\* The failures the facade documents.
Taxonomy ==
    { "UnknownCommandError", "ChannelError", "ParameterError", "ValueError",
      "PermissionError", "InvalidReplyError", "ConnectionError",
      "TimeoutError" }

\* C9: a read (MON) operation on a connection that stays open never ends in
\* the silent "no value" result: it returns a value or fails with one of the
\* documented failures.
C9_ReadsNeverEndInNoValue ==
    \A t \in Threads :
        Ended(t) /\ op[t] \in ReadOps /\ is_open =>
            /\ outcome[t] # None
            /\ outcome[t].kind = "raise" => outcome[t].exc \in Taxonomy

\* C10: a write the device rejects with a VAL:ERR frame ends in ValueError
\* and leaves the facade as it was before the call. For the only caller of
\* the facade the flag was clear before the call (a call reaches its
\* readline only after it has seen busy False), so it is clear afterwards.
C10_RejectedWriteLeavesFacade ==
    \A t \in Threads :
        Ended(t) /\ op[t] \in WriteOps /\ OnlyCaller(t)
          /\ outcome[t] = Raise("ValueError") => ~busy /\ module = 0

\* Thread t takes a line from the input buffer in this step.
ReadsLine(t) ==
    /\ pc[t] = "readline"
    /\ nread'[t] = nread[t] + 1
    /\ rxbuf # <<>>
    /\ rxbuf' = Tail(rxbuf)

\* C15: every call of _command ends, by a value or by an exception, when
\* the clock advances: a caller does not wait for ever, not when the busy
\* flag is never cleared (the loop ends once 5 seconds are exceeded) and not
\* when the device never answers (readline ends at its timeout).
C15_EveryCallEnds ==
    \A t \in Threads : (pc[t] # "idle") ~> (pc[t] = "idle")

\* One call has ended without releasing the flag after its readline, and the
\* call of another thread, which found the flag set, has ended too, with
\* TimeoutError.
C15_Witness ==
    \E t \in Threads, u \in Threads :
        /\ t # u
        /\ Ended(t) /\ nread[t] = 1 /\ outcome[t].kind = "raise"
        /\ Ended(u) /\ outcome[u] = Raise("TimeoutError")
        /\ busy

\* C17: in a sequence of exchanges of one caller, the line an exchange reads
\* is the reply of the device to the request of that exchange, also after
\* the read of an earlier exchange has ended at the read timeout: the late
\* reply of one exchange is not read by the next.
C17_ReadsReplyToOwnRequest ==
    [][\A t \in Threads :
          OnlyCaller(t) /\ ReadsLine(t) => Head(rxbuf) = exchange[t]]_vars

(***************************************************************************)
(* Properties of the reply decoder (checked under SpecDecode).             *)
(***************************************************************************)
\* The frames of the wire protocol, put together from their parts.
ErrorFrame(id, tag) == BD \o id \o <<",">> \o tag \o ERR \o CRLF
SuccessFrame(id, payload) == BD \o id \o OKVAL \o payload \o CRLF

\* The failure each error frame stands for.
ErrorOf(tag) ==
    CASE tag = <<"C", "M", "D">> -> "UnknownCommandError"
      [] tag = <<"C", "H">> -> "ChannelError"
      [] tag = <<"P", "A", "R">> -> "ParameterError"
      [] tag = <<"V", "A", "L">> -> "ValueError"
      [] tag = <<"L", "O", "C">> -> "PermissionError"

\* C6: an error frame with a board id of one or more digits yields the
\* failure of its tag, whatever type the caller expects.
C6_ErrorFramesClassified ==
    parsed # Pending =>
        \A id \in Ids \ {<<>>}, tag \in ErrTags :
            reply = ErrorFrame(id, tag) => parsed = Raise(ErrorOf(tag))

\* A LOC:ERR frame with a three-digit board id, decoded for a caller that
\* expects an integer, has raised PermissionError.
C6_Witness ==
    /\ reply = ErrorFrame(<<"0", "7", "7">>, <<"L", "O", "C">>)
    /\ type_ = "int"
    /\ parsed = Raise("PermissionError")

\* The board ids of two digits.
Ids2 == {id \in Ids : Len(id) = 2}

\* C7: a success frame yields its payload converted to the requested type,
\* the payload itself when no type is requested, and InvalidReplyError when
\* the payload does not convert; 123.4 converts to the number 123.4 and does
\* not convert to an integer.
C7_SuccessFramesConverted ==
    parsed # Pending =>
        \A id \in Ids2, p \in Payloads :
            reply = SuccessFrame(id, p) =>
                /\ type_ = "None" => parsed = StrVal(p)
                /\ type_ # "None" /\ Convert(type_, p) # Failed
                      => parsed = Convert(type_, p)
                /\ type_ # "None" /\ Convert(type_, p) = Failed
                      => parsed = Raise("InvalidReplyError")
                /\ p = <<"1", "2", "3", ".", "4">> /\ type_ = "float"
                      => parsed = FloatVal(1234, 1)
                /\ p = <<"1", "2", "3", ".", "4">> /\ type_ = "int"
                      => parsed = Raise("InvalidReplyError")
                /\ p = <<"1", "2">> /\ type_ = "int" => parsed = IntVal(12)

\* The payload 123.4 requested as an integer has raised InvalidReplyError.
C7_Witness ==
    /\ reply = SuccessFrame(<<"0", "7">>, <<"1", "2", "3", ".", "4">>)
    /\ type_ = "int"
    /\ parsed = Raise("InvalidReplyError")

\* The line r is an error frame as the five patterns of __check_error take
\* it: a board id of n digits, a tag, and nothing after the CRLF but
\* possibly one LF.
IsErrorLine(r) ==
    \E n \in 1..(Len(r) - 4), tag \in ErrTags, e \in {<<>>, <<LF>>} :
        /\ AllDigits(SubSeq(r, 5, 4 + n))
        /\ r = ErrorFrame(SubSeq(r, 5, 4 + n), tag) \o e

\* The line r is a success frame as the pattern of _parse_reply takes it:
\* blanks, then a two-digit board id and a payload of k characters without
\* LF, up to a CRLF.
IsSuccessLine(r) ==
    \E i \in 0..Len(r), k \in 0..Len(r) :
        LET body == From(r, i + 1)
            payload == SubSeq(body, 19, 18 + k)
        IN  /\ \A j \in 1..i : r[j] \in Whitespace
            /\ Len(body) >= 20 + k
            /\ AllDigits(SubSeq(body, 5, 6))
            /\ \A j \in 1..k : payload[j] # LF
            /\ SubSeq(body, 1, 20 + k)
                 = SuccessFrame(SubSeq(body, 5, 6), payload)

\* C8: a line that is neither an error frame nor a success frame yields
\* "no value" and no failure, whatever type the caller expects.
C8_OtherLinesYieldNone ==
    parsed # Pending /\ ~IsErrorLine(reply) /\ ~IsSuccessLine(reply)
        => parsed = None

\* A plain acknowledgement without payload, decoded for a caller that
\* expects a number, has given "no value".
C8_Witness ==
    /\ reply = BD \o <<"0", "0">> \o <<",", "C", "M", "D", ":", "O", "K">> \o CRLF
    /\ type_ = "float"
    /\ parsed = None

\* C16: error frames are matched after leading whitespace is trimmed, as
\* the success pattern is: a reply made of a blank and a well-formed error
\* frame yields the failure of its tag, as the frame without the blank does.
C16_ErrorFramesMatchedAfterTrim ==
    parsed # Pending =>
        \A id \in Ids \ {<<>>}, tag \in ErrTags :
            reply = <<" ">> \o ErrorFrame(id, tag)
                => parsed = Raise(ErrorOf(tag))

\* The number of blanks the reply r begins with, and of the digits of the
\* board id that follows them and "#BD:".
LeadLen(r) == Len(r) - Len(lstrip(r))
IdLen(r) == DigitRun(r, LeadLen(r) + 5)

\* The reply r with the digits of its board id replaced by those of id.
WithId(r, id) ==
    SubSeq(r, 1, LeadLen(r) + 4) \o id \o From(r, LeadLen(r) + 5 + IdLen(r))

\* C18: the result of the decoder does not depend on the board id of the
\* reply: the reply with the digits of its board id replaced by as many
\* other digits has the same outcome. The decoder takes the reply and the
\* type and not the module id of the facade, so that a reply of another
\* board is taken as the answer.
C18_BoardIdDoesNotMatter ==
    parsed # Pending /\ StartsWith(lstrip(reply), BD) =>
        \A id \in Ids :
            Len(id) = IdLen(reply)
                => parse_reply(WithId(reply, id), type_) = parsed

\* The facade of module 0 has decoded a success frame of board 07 to its
\* value, as it decodes that of board 00.
C18_Witness ==
    /\ module = 0
    /\ reply = SuccessFrame(<<"0", "7">>, <<"1", "2">>)
    /\ type_ = "int"
    /\ parsed = IntVal(12)
    /\ parsed = parse_reply(SuccessFrame(<<"0", "0">>, <<"1", "2">>), type_)

(***************************************************************************)
(* Properties of the getters that decode a word (checked under             *)
(* SpecGetters).                                                           *)
(***************************************************************************)
\* The values of the non-OFF members of ChannelStatus whose bit, value - 1,
\* is set in the word w.
SetMembers(w) == {v \in 1..14 : (w \div 2 ^ (v - 1)) % 2 = 1}

\* The member of ChannelStatus the word w stands for: that of the greatest
\* value among SetMembers(w), OFF when there is none.
Greatest(w) ==
    IF SetMembers(w) = {} THEN "OFF"
    ELSE ChannelStatus[
             (CHOOSE v \in SetMembers(w) : \A x \in SetMembers(w) : x <= v) + 1]

\* C11: for every non-negative word, _parse_state returns one status: the
\* non-OFF member of greatest value whose bit (value - 1) is set, and OFF
\* when no such bit is set; 0 gives OFF, and the OVER_CURRENT and TRIPPED
\* bits together give TRIPPED.
C11_GreatestSetStatusWins ==
    shown # Pending /\ shown.op = "status" =>
        /\ shown.result = StatusVal(Greatest(word))
        /\ word = 0 => shown.result = StatusVal("OFF")
        /\ word = 2 ^ 3 + 2 ^ 7 => shown.result = StatusVal("TRIPPED")

\* The word with the OVER_CURRENT and TRIPPED bits has been decoded as
\* TRIPPED.
C11_Witness ==
    /\ shown # Pending /\ shown.op = "status"
    /\ word = 2 ^ 3 + 2 ^ 7
    /\ shown.result = StatusVal("TRIPPED")

\* C12: enabled returns True exactly when the status decoded from the word
\* is ON or RAMPING_UP and False for the 13 other statuses; it is False when
\* a bit of higher priority, such as TRIPPED or INTERLOCKED, is set together
\* with the ON bit.
C12_EnabledIffOnOrRampingUp ==
    shown # Pending /\ shown.op = "enabled" =>
        /\ shown.result = BoolVal(Greatest(word) \in {"ON", "RAMPING_UP"})
        /\ Greatest(word) \in {ChannelStatus[i] : i \in {1} \cup 4..15}
              => shown.result = BoolVal(FALSE)
        /\ (word % 2 = 1 /\ SetMembers(word) \cap {8, 13} # {})
              => shown.result = BoolVal(FALSE)

\* The word with the ON and INTERLOCKED bits has been read as not enabled.
C12_Witness ==
    /\ shown # Pending /\ shown.op = "enabled"
    /\ word = 2 ^ 0 + 2 ^ 12
    /\ shown.result = BoolVal(FALSE)

\* C13: alarm_status returns a value of the alarm flags, and does not fail,
\* for every alarm word over the seven named bits (0 to 127), also when two
\* or more of the bits are set.
C13_AlarmStatusTakesEveryMask ==
    shown # Pending /\ shown.op = "alarm_status" /\ word \in 0..127 =>
        shown.result.kind = "AlarmStatus"

(***************************************************************************)
(* Properties of the command encoder (checked under SpecEncoder).          *)
(***************************************************************************)
\* The position of the first c in s at or after i, Len(s) + 1 when none.
RECURSIVE Find(_, _, _)
Find(s, c, i) ==
    IF i > Len(s) \/ s[i] = c THEN i ELSE Find(s, c, i + 1)

\* The fields of s that the separator c divides it into.
RECURSIVE Split(_, _)
Split(s, c) ==
    LET i == Find(s, c, 1) IN
    IF i > Len(s) THEN <<s>>
    ELSE <<SubSeq(s, 1, i - 1)>> \o Split(From(s, i + 1), c)

\* The field f is the key followed by a colon and a text.
HasKey(f, key) == StartsWith(f, key \o <<":">>)
TextOf(f, key) == From(f, Len(key) + 2)

\* The request line read by the grammar
\*   $BD:<module_id>,CMD:<operation>[,CH:<channel>],PAR:<parameter>
\*   [,VAL:<value>]\r\n
\* with its fields in this order: [ok |-> TRUE, module, cmd, channel, par,
\* value], the optional fields as options, or [ok |-> FALSE].
ParseRequest(line) ==
    LET n == Len(line)
        fields == Split(SubSeq(line, 1, n - 2), ",")
        k == Len(fields)
        hasCh == k >= 3 /\ HasKey(fields[3], <<"C", "H">>)
        iPar == IF hasCh THEN 4 ELSE 3
        hasVal == k = iPar + 1
    IN  IF /\ n >= 2 /\ SubSeq(line, n - 1, n) = CRLF
           /\ k \in {iPar, iPar + 1}
           /\ HasKey(fields[1], <<"$", "B", "D">>)
           /\ TextOf(fields[1], <<"$", "B", "D">>) # <<>>
           /\ AllDigits(TextOf(fields[1], <<"$", "B", "D">>))
           /\ HasKey(fields[2], <<"C", "M", "D">>)
           /\ hasCh => /\ TextOf(fields[3], <<"C", "H">>) # <<>>
                       /\ AllDigits(TextOf(fields[3], <<"C", "H">>))
           /\ HasKey(fields[iPar], <<"P", "A", "R">>)
           /\ hasVal => HasKey(fields[k], <<"V", "A", "L">>)
        THEN [ok |-> TRUE,
              module |-> DecVal(TextOf(fields[1], <<"$", "B", "D">>)),
              cmd |-> TextOf(fields[2], <<"C", "M", "D">>),
              channel |-> IF hasCh
                          THEN <<DecVal(TextOf(fields[3], <<"C", "H">>))>>
                          ELSE <<>>,
              par |-> TextOf(fields[iPar], <<"P", "A", "R">>),
              value |-> IF hasVal THEN <<TextOf(fields[k], <<"V", "A", "L">>)>>
                        ELSE <<>>]
        ELSE [ok |-> FALSE]

\* C14: the request line built by _command follows the grammar, with the CH
\* field exactly when a channel is given (channel 0 too) and the VAL field
\* exactly when a value is given (the empty text too); read by the grammar,
\* it gives back the module id, operation, channel, parameter and value text
\* it was built from, for the module ids 0..MaxModule and the channels
\* 0..MaxChannel.
C14_RequestLineRoundTrips ==
    sent # NotBuilt /\ request.kind = "command" =>
        LET p == ParseRequest(sent) IN
        /\ p.ok
        /\ p.module = request.module
        /\ p.cmd = request.cmd
        /\ p.channel = request.channel
        /\ p.par = request.par
        /\ (p.value = <<>>) = (request.value = Absent)
        /\ request.value # Absent => p.value = <<format(request.value[1])>>

\* A SET on channel 0 of module 99 with the empty text as value has been
\* built with its CH and VAL fields.
C14_Witness ==
    /\ request.kind = "command"
    /\ request.module = 99 /\ request.channel = Given(0)
    /\ request.value = Given(StrVal(<<>>))
    /\ request.cmd = SET /\ request.par = <<"V", "S", "E", "T">>
    /\ sent = <<"$", "B", "D", ":", "9", "9", ",", "C", "M", "D", ":", "S", "E",
                "T", ",", "C", "H", ":", "0", ",", "P", "A", "R", ":", "V", "S",
                "E", "T", ",", "V", "A", "L", ":", CR, LF>>

\* The text t is a number with exactly one decimal digit.
OneDecimal(t) ==
    LET u == IF t # <<>> /\ Head(t) = "-" THEN Tail(t) ELSE t
        n == DigitRun(u, 1)
    IN  /\ n >= 1
        /\ Len(u) = n + 2
        /\ u[n + 1] = "."
        /\ u[n + 2] \in Digits

\* The setters whose value is a fixed-point rate, voltage or current.
FixedPointSetters ==
    {"voltage", "current_limit", "voltage_limit", "ramp_up_rate",
     "ramp_down_rate"}

\* C19: the setters of a fixed-point rate, voltage or current (voltage,
\* current_limit, voltage_limit, ramp_up_rate, ramp_down_rate) put the value
\* in the VAL field with exactly one decimal digit; the other setters that
\* send a value insert it as str() writes it.
C19_FixedPointValuesHaveOneDecimal ==
    sent # NotBuilt /\ request.kind = "setter" =>
        LET p == ParseRequest(sent) IN
        /\ request.name \in FixedPointSetters =>
              p.ok /\ p.value # <<>> /\ OneDecimal(p.value[1])
        /\ request.name \in {"trip_time", "power_down_mode", "interlock_mode"}
              => p.ok /\ p.value = <<format(request.x)>>
        /\ request.name = "imon_range" => p.ok /\ p.value = <<request.x.value>>

====
